---- MODULE Spec2Model ----
(***************************************************************************)
(* A model of ingest_cmorph_daily_complete.py: the descriptor parser       *)
(* (_read_description), the monthly aggregator                             *)
(* (_read_daily_cmorph_to_monthly_sum), the time axis generator            *)
(* (_compute_days) and the driver (ingest_cmorph_to_netcdf).               *)
(*                                                                         *)
(* Text is kept as TLA+ strings; a character is a string of length one.    *)
(* A Python call that may raise is an operator returning a record with an  *)
(* "err" field: "none", or the name of the exception class raised.         *)
(***************************************************************************)
EXTENDS Integers, Sequences, FiniteSets, TLC

VARIABLES
    pc,              \* position of the running function
    error,           \* "none", or the exception that ended the run
    download_files,  \* parameter of ingest_cmorph_to_netcdf
    remove_files,    \* parameter of ingest_cmorph_to_netcdf
    descriptor,      \* text of the descriptor: a sequence of lines
    data_desc,       \* the dictionary returned by _read_description
    cmorph_dir,      \* the work directory: a set of files [name, data]
    archive,         \* what the FTP server serves for a daily file
    output_dataset,  \* the NetCDF file: "absent", "old", "open", "closed"
    prcp,            \* slices of the data variable, by time index
    written,         \* the time indices assigned, in order
    year,            \* loop variable of line 275
    month,           \* loop variable of line 276
    io,              \* the I/O performed so far, as a set of tags
    args,            \* arguments of the function under check
    result           \* what the function under check returned or raised

vars == <<pc, error, download_files, remove_files, descriptor, data_desc,
          cmorph_dir, archive, output_dataset, prcp, written, year, month,
          io, args, result>>

----------------------------------------------------------------------------
(* Python built-ins used by the program.                                   *)

Min(a, b) == IF a < b THEN a ELSE b
Max(a, b) == IF a > b THEN a ELSE b

Char(s, i) == SubSeq(s, i, i)

\* s[lo:hi] with Python's rules for negative and out-of-range indices
Slice(s, lo, hi) ==
    LET n == Len(s)
        a == IF lo < 0 THEN Max(n + lo, 0) ELSE Min(lo, n)
        b == IF hi < 0 THEN Max(n + hi, 0) ELSE Min(hi, n)
    IN  IF a >= b THEN "" ELSE SubSeq(s, a + 1, b)

IsDigit(c) == c \in {"0", "1", "2", "3", "4", "5", "6", "7", "8", "9"}
DigitVal(c) == CASE c = "0" -> 0 [] c = "1" -> 1 [] c = "2" -> 2 [] c = "3" -> 3
                 [] c = "4" -> 4 [] c = "5" -> 5 [] c = "6" -> 6 [] c = "7" -> 7
                 [] c = "8" -> 8 [] c = "9" -> 9

RECURSIVE DigitsVal(_)
\* value of a string of digits and underscores, underscores skipped
DigitsVal(s) ==
    IF Len(s) = 0 THEN 0
    ELSE LET c == Char(s, Len(s))
             rest == SubSeq(s, 1, Len(s) - 1)
         IN  IF c = "_" THEN DigitsVal(rest)
             ELSE DigitsVal(rest) * 10 + DigitVal(c)

\* digits, with single underscores allowed between digits (PEP 515)
IsDigitString(s) ==
    /\ Len(s) > 0
    /\ IsDigit(Char(s, 1))
    /\ IsDigit(Char(s, Len(s)))
    /\ \A i \in 1..Len(s) : IsDigit(Char(s, i)) \/ Char(s, i) = "_"
    /\ \A i \in 1..(Len(s) - 1) : ~(Char(s, i) = "_" /\ Char(s, i + 1) = "_")

HasSign(s) == Len(s) > 0 /\ Char(s, 1) \in {"-", "+"}
Unsigned(s) == IF HasSign(s) THEN SubSeq(s, 2, Len(s)) ELSE s
Signed(s, v) == IF HasSign(s) /\ Char(s, 1) = "-" THEN 0 - v ELSE v

\* int(s) for text without surrounding whitespace
PyInt(s) ==
    IF IsDigitString(Unsigned(s))
    THEN [err |-> "none", val |-> Signed(s, DigitsVal(Unsigned(s)))]
    ELSE [err |-> "ValueError", val |-> 0]

\* number of fraction digits kept: a float is held in thousandths
FracDigits == 3

RECURSIVE Pow10(_)
Pow10(n) == IF n = 0 THEN 1 ELSE 10 * Pow10(n - 1)

DotAt(s) == IF \E i \in 1..Len(s) : Char(s, i) = "."
            THEN CHOOSE i \in 1..Len(s) : Char(s, i) = "." ELSE 0

\* float(s) for decimal text "[sign]digits[.digits]", in thousandths; text
\* with letters is a ValueError (exponents, inf and nan are not drawn)
PyFloat(s) ==
    LET u == Unsigned(s)
        dot == DotAt(u)
        ip == IF dot = 0 THEN u ELSE Slice(u, 0, dot - 1)
        fp == IF dot = 0 THEN "" ELSE Slice(u, dot, Len(u))
        okI == ip = "" \/ IsDigitString(ip)
        okF == fp = "" \/ (IsDigitString(fp) /\ Len(fp) <= FracDigits)
        iv == IF ip = "" THEN 0 ELSE DigitsVal(ip)
        fv == IF fp = "" THEN 0 ELSE DigitsVal(fp) * Pow10(FracDigits - Len(fp))
    IN  IF okI /\ okF /\ ~(ip = "" /\ fp = "")
        THEN [err |-> "none", val |-> Signed(s, iv * Pow10(FracDigits) + fv)]
        ELSE [err |-> "ValueError", val |-> 0]

IsSpace(c) == c \in {" ", "\t", "\n"}

RECURSIVE SplitFrom(_, _, _, _)
\* the words of line[i:], after the words `done` and the unfinished word `word`
SplitFrom(line, i, word, done) ==
    IF i > Len(line) THEN (IF word = "" THEN done ELSE Append(done, word))
    ELSE IF IsSpace(Char(line, i))
         THEN SplitFrom(line, i + 1, "", IF word = "" THEN done ELSE Append(done, word))
    ELSE SplitFrom(line, i + 1, word \o Char(line, i), done)

\* line.split(): the maximal runs of non-whitespace characters
Split(line) == SplitFrom(line, 1, "", <<>>)

RECURSIVE Join(_)
\* ' '.join(words)
Join(words) ==
    IF Len(words) = 0 THEN ""
    ELSE IF Len(words) = 1 THEN words[1]
    ELSE words[1] \o " " \o Join(Tail(words))

\* words[k:]
From(words, k) == IF k >= Len(words) THEN <<>> ELSE SubSeq(words, k + 1, Len(words))

\* calendar.isleap
IsLeap(y) == y % 4 = 0 /\ (y % 100 # 0 \/ y % 400 = 0)

_MONTH_DAYS_NONLEAP == <<31, 28, 31, 30, 31, 30, 31, 31, 30, 31, 30, 31>>
_MONTH_DAYS_LEAP == <<31, 29, 31, 30, 31, 30, 31, 31, 30, 31, 30, 31>>

----------------------------------------------------------------------------
(* datetime.strptime(text, '%d%b%Y') and the datetime values it builds.    *)

UpperCase == "ABCDEFGHIJKLMNOPQRSTUVWXYZ"
LowerCase == "abcdefghijklmnopqrstuvwxyz"

LowerChar(c) == IF \E i \in 1..26 : Char(UpperCase, i) = c
                THEN Char(LowerCase, CHOOSE i \in 1..26 : Char(UpperCase, i) = c)
                ELSE c

RECURSIVE Lower(_)
Lower(s) == IF Len(s) = 0 THEN "" ELSE LowerChar(Char(s, 1)) \o Lower(SubSeq(s, 2, Len(s)))

MonthAbbr == <<"jan", "feb", "mar", "apr", "may", "jun",
               "jul", "aug", "sep", "oct", "nov", "dec">>

DaysInMonth(y, m) == IF IsLeap(y) THEN _MONTH_DAYS_LEAP[m] ELSE _MONTH_DAYS_NONLEAP[m]

\* datetime(y, m, d): the constructor rejects what is no calendar date
ValidDate(y, m, d) == /\ y \in 1..9999
                      /\ m \in 1..12
                      /\ d >= 1
                      /\ d <= DaysInMonth(y, m)

\* the fields of "<day><mon><year>" when the day takes dlen characters
DateFields(s, dlen) ==
    [d |-> Slice(s, 0, dlen), b |-> Lower(Slice(s, dlen, dlen + 3)),
     y |-> Slice(s, dlen + 3, Len(s))]

\* %d is one or two digits, not zero; %b a month abbreviation in any case;
\* %Y exactly four digits
FieldsMatch(f) ==
    /\ Len(f.d) \in {1, 2}
    /\ \A i \in 1..Len(f.d) : IsDigit(Char(f.d, i))
    /\ DigitsVal(f.d) \in 1..31
    /\ \E m \in 1..12 : MonthAbbr[m] = f.b
    /\ Len(f.y) = 4
    /\ \A i \in 1..4 : IsDigit(Char(f.y, i))

Strptime(s) ==
    LET dlen == IF FieldsMatch(DateFields(s, 2)) THEN 2 ELSE 1
        f == DateFields(s, dlen)
        m == CHOOSE k \in 1..12 : MonthAbbr[k] = f.b
    IN  IF FieldsMatch(f) /\ ValidDate(DigitsVal(f.y), m, DigitsVal(f.d))
        THEN [err |-> "none",
              val |-> [year |-> DigitsVal(f.y), month |-> m, day |-> DigitsVal(f.d)]]
        ELSE [err |-> "ValueError", val |-> [year |-> 0, month |-> 0, day |-> 0]]

----------------------------------------------------------------------------
(* _read_description: one branch of the if/elif chain per keyword.  The    *)
(* dictionary is a function from the keys set so far to their values.      *)

EmptyDict == [k \in {} |-> 0]
Put(dict, key, value) == (key :> value) @@ dict
Has(dict, key) == key \in DOMAIN dict

Raise(e) == [err |-> e, dict |-> EmptyDict]
Ok(dict) == [err |-> "none", dict |-> dict]

\* the first error among conversions done in order, "none" when all succeed
FirstErr(errs) ==
    IF \E i \in 1..Len(errs) : errs[i] # "none"
    THEN errs[CHOOSE i \in 1..Len(errs) :
                /\ errs[i] # "none"
                /\ \A j \in 1..(i - 1) : errs[j] = "none"]
    ELSE "none"

\* float(words[k]) and int(words[k]), k counted from zero as in the source
FloatAt(words, k) == IF k >= Len(words) THEN [err |-> "IndexError", val |-> 0]
                     ELSE PyFloat(words[k + 1])
IntAt(words, k) == IF k >= Len(words) THEN [err |-> "IndexError", val |-> 0]
                   ELSE PyInt(words[k + 1])
DateAt(words, k) == IF k >= Len(words)
                    THEN [err |-> "IndexError", val |-> [year |-> 0, month |-> 0, day |-> 0]]
                    ELSE Strptime(words[k + 1])

AxisDef(dict, words, axis) ==
    LET count == IntAt(words, 1)
        start == FloatAt(words, 3)
        increment == FloatAt(words, 4)
        e == FirstErr(<<count.err, start.err, increment.err>>)
    IN  IF e # "none" THEN Raise(e)
        ELSE Ok(Put(Put(Put(dict, axis \o "_count", count.val),
                        axis \o "_start", start.val),
                    axis \o "_increment", increment.val))

\* the body of the loop over the descriptor's lines, lines 330-351
ParseLine(dict, line) ==
    LET words == Split(line)
    IN  IF Len(words) = 0 THEN Raise("IndexError")
        ELSE IF words[1] = "UNDEF"
             THEN LET v == FloatAt(words, 1)
                  IN  IF v.err # "none" THEN Raise(v.err)
                      ELSE Ok(Put(dict, "undef", v.val))
        ELSE IF words[1] = "XDEF" THEN AxisDef(dict, words, "xdef")
        ELSE IF words[1] = "YDEF" THEN AxisDef(dict, words, "ydef")
        ELSE IF words[1] = "TDEF"
             THEN LET v == DateAt(words, 3)
                  IN  IF v.err # "none" THEN Raise(v.err)
                      ELSE Ok(Put(dict, "start_date", v.val))
        ELSE IF words[1] = "OPTIONS"
             THEN IF Len(words) < 3 THEN Raise("IndexError")
                  ELSE Ok(Put(dict, "little_endian", words[3] # "big_endian"))
        ELSE IF words[1] = "cmorph"
             THEN Ok(Put(dict, "variable_description", Join(From(words, 4))))
        ELSE IF words[1] = "TITLE"
             THEN Ok(Put(dict, "title", Join(From(words, 1))))
        ELSE Ok(dict)

RECURSIVE ParseLines(_, _)
ParseLines(dict, lines) ==
    IF Len(lines) = 0 THEN Ok(dict)
    ELSE LET r == ParseLine(dict, Head(lines))
         IN  IF r.err # "none" THEN r ELSE ParseLines(r.dict, Tail(lines))

\* _read_description of a file that exists and holds `lines`
_read_description(lines) == ParseLines(EmptyDict, lines)

----------------------------------------------------------------------------
(* _read_daily_cmorph_to_monthly_sum.                                      *)
(*                                                                         *)
(* A file of the work directory is [name, readable, data].  An element of  *)
(* data stands for four bytes of the file: le is the float they denote     *)
(* read in the host's (little-endian) order, which is what np.fromfile     *)
(* yields, and be the float they denote read in the opposite order.  A     *)
(* float is held in thousandths, as PyFloat holds it.                      *)

\* the float n.0
F(n) == n * Pow10(FracDigits)

Elem(l, b) == [le |-> F(l), be |-> F(b)]

\* ndarray.byteswap() on one element
ByteSwap(e) == [le |-> e.be, be |-> e.le]

\* the element 0.0: all four bytes zero
ZeroElem == [le |-> 0, be |-> 0]

\* data[data < 0] = 0.0, line 55
ZeroNegative(data) == [i \in 1..Len(data) |-> IF data[i].le < 0 THEN ZeroElem ELSE data[i]]

\* Decode, had line 54 sent no descriptor into the zeroing
DecodeKeepNegative(data, little_endian, undef) ==
    IF ~little_endian THEN [i \in 1..Len(data) |-> ByteSwap(data[i])] ELSE data

\* Decode, had line 55 compared the data with undef instead of zero
DecodeBelowUndef(data, little_endian, undef) ==
    LET swapped == IF ~little_endian
                   THEN [i \in 1..Len(data) |-> ByteSwap(data[i])] ELSE data
    IN  IF undef < 0
        THEN [i \in 1..Len(swapped) |-> IF swapped[i].le < undef THEN ZeroElem ELSE swapped[i]]
        ELSE swapped

\* lines 50-55: byte order correction, then the missing value policy
Decode(data, little_endian, undef) ==
    LET swapped == IF ~little_endian
                   THEN [i \in 1..Len(data) |-> ByteSwap(data[i])] ELSE data
    IN  IF undef < 0 THEN ZeroNegative(swapped) ELSE swapped

\* np.zeros((n, ))
Zeros(n) == [i \in 1..n |-> 0]

\* summed_data += data, with NumPy's broadcasting of a one-element operand
AddInPlace(summed, data) ==
    IF Len(data) = Len(summed)
    THEN [err |-> "none", sum |-> [i \in 1..Len(summed) |-> summed[i] + data[i].le]]
    ELSE IF Len(data) = 1
    THEN [err |-> "none", sum |-> [i \in 1..Len(summed) |-> summed[i] + data[1].le]]
    ELSE [err |-> "ValueError", sum |-> <<>>]

FileYear(name) == PyInt(Slice(name, 0 - 8, 0 - 4))
FileMonth(name) == PyInt(Slice(name, 0 - 4, 0 - 2))

\* whether the loop body goes on to read the file, lines 43-46
Matches(file_year, file_month, data_year, data_month) ==
    ~(file_year # data_year) /\ ~(file_month # data_month)

\* the body of the loop over the directory listing, lines 41-58
AddDailyFile(summed, file, desc, data_year, data_month) ==
    LET fy == FileYear(file.name)
        fm == FileMonth(file.name)
    IN  IF fy.err # "none" THEN [err |-> fy.err, sum |-> <<>>]
        ELSE IF fm.err # "none" THEN [err |-> fm.err, sum |-> <<>>]
        ELSE IF ~Matches(fy.val, fm.val, data_year, data_month)
             THEN [err |-> "none", sum |-> summed]
        ELSE IF ~file.readable THEN [err |-> "OSError", sum |-> <<>>]
        ELSE IF ~Has(desc, "little_endian") \/ ~Has(desc, "undef")
             THEN [err |-> "KeyError", sum |-> <<>>]
        ELSE AddInPlace(summed, Decode(file.data, desc["little_endian"], desc["undef"]))

RECURSIVE SumListing(_, _, _, _, _)
SumListing(summed, listing, desc, data_year, data_month) ==
    IF Len(listing) = 0 THEN [err |-> "none", sum |-> summed]
    ELSE LET r == AddDailyFile(summed, Head(listing), desc, data_year, data_month)
         IN  IF r.err # "none" THEN r
             ELSE SumListing(r.sum, Tail(listing), desc, data_year, data_month)

\* the function, given the order in which os.listdir lists the directory
_read_daily_cmorph_to_monthly_sum(listing, desc, data_year, data_month) ==
    IF ~Has(desc, "xdef_count") \/ ~Has(desc, "ydef_count")
    THEN [err |-> "KeyError", sum |-> <<>>]
    ELSE SumListing(Zeros(desc["xdef_count"] * desc["ydef_count"]), listing,
                    desc, data_year, data_month)

----------------------------------------------------------------------------
(* File names, as _download_daily_files builds them (lines 110-127).       *)

RECURSIVE Str(_)
\* str(n) for n >= 0
Str(n) == IF n < 10 THEN Char("0123456789", n + 1)
          ELSE Str(n \div 10) \o Char("0123456789", (n % 10) + 1)

\* str(n).zfill(2)
ZFill2(n) == IF Len(Str(n)) < 2 THEN "0" \o Str(n) ELSE Str(n)

filename_unzipped(y, m, d) ==
    "CMORPH_V1.0_RAW_0.25deg-DLY_00Z_" \o Str(y) \o ZFill2(m) \o ZFill2(d)

\* the name the driver gives the descriptor inside the work directory, line 217
DescriptorName == "data_descriptor.txt"

----------------------------------------------------------------------------
(* Inputs drawn by the specifications.                                     *)

MaxFiles == 2      \* files in a directory listing given to the aggregator
MaxData == 3       \* elements in a daily file of the wrong length

\* the 2 x 1 grid of the descriptors drawn
XdefLine == "XDEF 2 LINEAR    0.125  0.25"
YdefLine == "YDEF  1 LINEAR  -59.875  0.25"
TitleLine == "TITLE  CMORPH Version 1.0BETA Version, daily precip from 00Z-24Z "
VarLine == "cmorph   1   99 yyyyy CMORPH Version 1.o daily precipitation (mm)  "

Descriptor(undefLine, optionsLine, tdefLine) ==
    <<TitleLine, optionsLine, undefLine, XdefLine, YdefLine, "ZDEF   01 LEVELS 1",
      tdefLine, "VARS 1", VarLine, "ENDVARS">>

UndefLines == {"UNDEF  -999.0", "UNDEF  999.0"}
OptionsLines == {"OPTIONS template little_endian", "OPTIONS template big_endian"}

\* the dictionaries the aggregator is given
AggDescs == {_read_description(Descriptor(u, o, "TDEF 99999 LINEAR  01jan1998 1dy ")).dict :
               u \in UndefLines, o \in OptionsLines}

\* file elements: below the sentinel, the sentinel, negative above it, positive
Sentinel == Elem(0 - 999, 1)
One == Elem(1, 999)
Elements == {Elem(0 - 1000, 1), Sentinel, Elem(0 - 1, 0 - 999), One}

\* daily files for a grid of n cells: of that length, and of other lengths
Grids(n) == [1..n -> Elements]
WrongLength(n) == {[i \in 1..k |-> e] : k \in (0..MaxData) \ {n}, e \in {Sentinel, One}}

File(name, readable, data) == [name |-> name, readable |-> readable, data |-> data]

DayFiles(name, n) == {File(name, TRUE, d) : d \in Grids(n) \cup WrongLength(n)}
                       \cup {File(name, FALSE, <<>>)}
OtherFiles(name, n) == {File(name, TRUE, [i \in 1..n |-> One]), File(name, FALSE, <<>>)}

AggFiles(n) == DayFiles(filename_unzipped(1998, 1, 1), n)
                 \cup DayFiles(filename_unzipped(1998, 1, 2), n)
                 \cup OtherFiles(filename_unzipped(1998, 2, 1), n)
                 \cup OtherFiles(filename_unzipped(1999, 1, 1), n)
                 \cup {File(DescriptorName, TRUE, <<>>)}

\* directory listings: sequences of files with distinct names
Listings(files, n) ==
    UNION {{l \in [1..k -> files] :
              \A i, j \in 1..k : i # j => l[i].name # l[j].name} : k \in 0..n}

----------------------------------------------------------------------------
(* State shared by the specifications: what a specification does not use   *)
(* keeps the value given here.                                             *)

NoResult == [err |-> "pending"]

DriverIdle ==
    /\ error = "none"
    /\ download_files = FALSE
    /\ remove_files = FALSE
    /\ descriptor = <<>>
    /\ data_desc = EmptyDict
    /\ cmorph_dir = {}
    /\ archive = <<>>
    /\ output_dataset = "absent"
    /\ prcp = <<>>
    /\ written = <<>>
    /\ year = 0
    /\ month = 0
    /\ io = {}

driverVars == <<error, download_files, remove_files, descriptor, data_desc,
                cmorph_dir, archive, output_dataset, prcp, written, year, month, io>>

----------------------------------------------------------------------------
(* SpecAgg: one call of _read_daily_cmorph_to_monthly_sum.                 *)

InitAgg ==
    /\ pc = "call"
    /\ DriverIdle
    /\ \E d \in AggDescs :
         \E l \in Listings(AggFiles(d["xdef_count"] * d["ydef_count"]), MaxFiles) :
           args = [listing |-> l, desc |-> d, data_year |-> 1998, data_month |-> 1]
    /\ result = NoResult

MonthlySumCall ==
    /\ pc = "call"
    /\ result' = _read_daily_cmorph_to_monthly_sum(args.listing, args.desc,
                                                   args.data_year, args.data_month)
    /\ pc' = "returned"
    /\ UNCHANGED <<args, driverVars>>

NextAgg == MonthlySumCall

SpecAgg == InitAgg /\ [][NextAgg]_vars

----------------------------------------------------------------------------
(* Claims about the aggregator, checked under SpecAgg.                     *)

Returned == pc = "returned"
Undef == args.desc["undef"]
\* the length of the summation array of line 37
GridLen == args.desc["xdef_count"] * args.desc["ydef_count"]

\* the value of a file element after byte-order correction
Corrected(e) == IF args.desc["little_endian"] THEN e.le ELSE e.be

\* the name carries the target year at [-8:-4] and the target month at [-4:-2]
CarriesTarget(name) ==
    /\ Slice(name, 0 - 8, 0 - 4) = Str(args.data_year)
    /\ Slice(name, 0 - 4, 0 - 2) = ZFill2(args.data_month)

Selected == {i \in 1..Len(args.listing) : CarriesTarget(args.listing[i].name)}

\* every selected file is readable and holds x_count * y_count elements
SelectedDecodable ==
    \A i \in Selected : /\ args.listing[i].readable
                        /\ Len(args.listing[i].data) = GridLen

\* the zeroing policy as the code has it, and as the specification words it
ZeroBelowZero(v) == IF Undef < 0 /\ v < 0 THEN 0 ELSE v
ZeroBelowUndef(v) == IF Undef < 0 /\ v < Undef THEN 0 ELSE v

RECURSIVE SumOver(_, _, _)
\* the sum over the files `idx` of the listing of what cell c contributes
SumOver(idx, c, belowUndef) ==
    IF idx = {} THEN 0
    ELSE LET i == CHOOSE i \in idx : TRUE
             v == Corrected(args.listing[i].data[c])
         IN  (IF belowUndef THEN ZeroBelowUndef(v) ELSE ZeroBelowZero(v))
               + SumOver(idx \ {i}, c, belowUndef)

\* the listing with every sentinel cell replaced by the element 0.0
SentinelsZeroed ==
    [i \in 1..Len(args.listing) |->
       [args.listing[i] EXCEPT !.data =
          [c \in 1..Len(@) |-> IF Corrected(@[c]) = Undef THEN ZeroElem ELSE @[c]]]]

HasSentinel ==
    \E i \in Selected : \E c \in 1..Len(args.listing[i].data) :
        Corrected(args.listing[i].data[c]) = Undef

Neutral ==
    result = _read_daily_cmorph_to_monthly_sum(SentinelsZeroed, args.desc,
                                               args.data_year, args.data_month)

\* C3 as claimed: for every undef, the aggregate of grids of valid and sentinel
\* cells equals the aggregate of the same grids with each sentinel cell set to 0
C3_NeutralForEveryUndef == Returned => Neutral

\* C3 as amended: the same, for a descriptor whose undef is negative
C3_MissingValueNeutrality == (Returned /\ Undef < 0) => Neutral

C3_Witness ==
    /\ Returned
    /\ Undef < 0
    /\ result.err = "none"
    /\ HasSentinel
    /\ Cardinality(Selected) = 2
    /\ \E c \in 1..GridLen : result.sum[c] > 0

\* C4 as claimed: an element is replaced by zero exactly when undef is negative
\* and the element is strictly less than undef; every other element adds its
\* own value to the sum
C4_ZeroedBelowUndef ==
    (Returned /\ SelectedDecodable /\ result.err = "none")
        => \A c \in 1..GridLen : result.sum[c] = SumOver(Selected, c, TRUE)

\* C4 as amended: an element is replaced by zero exactly when undef is negative
\* and the element is strictly less than zero; every other element adds its own
\* value to the sum
C4_ZeroedBelowZero ==
    (Returned /\ SelectedDecodable /\ result.err = "none")
        => \A c \in 1..GridLen : result.sum[c] = SumOver(Selected, c, FALSE)

C4_Witness ==
    /\ Returned
    /\ SelectedDecodable
    /\ result.err = "none"
    /\ Undef < 0
    /\ \E i \in Selected : \E c \in 1..GridLen :
         LET v == Corrected(args.listing[i].data[c])
         IN  v < 0 /\ ~(v < Undef)
    /\ \E i \in Selected : \E c \in 1..GridLen :
         Corrected(args.listing[i].data[c]) > 0 /\ result.sum[c] > 0

Reordered == {l \in Listings({args.listing[i] : i \in 1..Len(args.listing)},
                             Len(args.listing)) : Len(l) = Len(args.listing)}

\* C5: for any directory contents the call returns, without error, the
\* element-wise sum of the decoded grids of exactly the files whose name carries
\* the target year and month, whatever the listing order, and zeros when no
\* file is selected
C5_SumOfSelectedFiles ==
    (Returned /\ SelectedDecodable)
        => /\ result.err = "none"
           /\ Len(result.sum) = GridLen
           /\ \A c \in 1..GridLen : result.sum[c] = SumOver(Selected, c, FALSE)
           /\ \A l \in Reordered :
                _read_daily_cmorph_to_monthly_sum(l, args.desc, args.data_year,
                                                  args.data_month) = result

\* C9: a selected file that is unreadable or holds a number of elements other
\* than x_count * y_count makes the call raise
C9_BadFileRaises == (Returned /\ ~SelectedDecodable) => result.err # "none"

----------------------------------------------------------------------------
(* _compute_days.  A Python value is a record tagged with its type, so     *)
(* that an operator applied to operands of the wrong types raises          *)
(* TypeError as the interpreter does.                                      *)

IntValue(n) == [type |-> "int", v |-> n]
\* a datetime, held as its proleptic Gregorian ordinal (0001-01-01 is day 1)
DatetimeValue(ord) == [type |-> "datetime", v |-> ord]
Timedelta(days) == [type |-> "timedelta", v |-> days]

DaysBeforeYear(y) ==
    LET p == y - 1 IN (p * 365) + (p \div 4) - (p \div 100) + (p \div 400)

RECURSIVE DaysBeforeMonth(_, _)
DaysBeforeMonth(y, m) == IF m = 1 THEN 0
                         ELSE DaysBeforeMonth(y, m - 1) + DaysInMonth(y, m - 1)

\* datetime(y, m, d)
Datetime(y, m, d) ==
    IF ValidDate(y, m, d)
    THEN [err |-> "none", val |-> DatetimeValue(DaysBeforeYear(y) + DaysBeforeMonth(y, m) + d)]
    ELSE [err |-> "ValueError", val |-> IntValue(0)]

\* a - b
PySub(a, b) ==
    IF a.type = "int" /\ b.type = "int" THEN [err |-> "none", val |-> IntValue(a.v - b.v)]
    ELSE IF a.type = "datetime" /\ b.type = "datetime"
         THEN [err |-> "none", val |-> Timedelta(a.v - b.v)]
    ELSE IF a.type = "datetime" /\ b.type = "timedelta"
         THEN [err |-> "none", val |-> DatetimeValue(a.v - b.v)]
    ELSE [err |-> "TypeError", val |-> IntValue(0)]

\* a + b
PyAdd(a, b) ==
    IF a.type = "int" /\ b.type = "int" THEN [err |-> "none", val |-> IntValue(a.v + b.v)]
    ELSE IF a.type = "datetime" /\ b.type = "timedelta"
         THEN [err |-> "none", val |-> DatetimeValue(a.v + b.v)]
    ELSE [err |-> "TypeError", val |-> IntValue(0)]

\* days[i] = units_day_start + i for i in range(total_days), lines 190-194
FillDays(units_day_start, total_days) ==
    IF total_days <= 0 THEN [err |-> "none", days |-> <<>>]
    ELSE IF PyAdd(units_day_start, IntValue(0)).err # "none"
         THEN [err |-> PyAdd(units_day_start, IntValue(0)).err, days |-> <<>>]
    ELSE [err |-> "none",
          days |-> [i \in 1..total_days |-> PyAdd(units_day_start, IntValue(i - 1)).val.v]]

\* the body of _compute_days, lines 178-196
_compute_days(year_initial, year_final, year_since) ==
    IF year_initial < year_since THEN [err |-> "ValueError", days |-> <<>>]
    ELSE LET first == Datetime(year_initial, 1, 1)
             \* .day of January 1st
             data_day_initial == IntValue(1)
             last == Datetime(year_final, 12, 31)
             span == PySub(last.val, data_day_initial)
             units_day_start == Datetime(year_since, 1, 1)
         IN  IF first.err # "none" THEN [err |-> first.err, days |-> <<>>]
             ELSE IF last.err # "none" THEN [err |-> last.err, days |-> <<>>]
             ELSE IF span.err # "none" THEN [err |-> span.err, days |-> <<>>]
             ELSE IF units_day_start.err # "none"
                  THEN [err |-> units_day_start.err, days |-> <<>>]
             ELSE FillDays(units_day_start.val, span.val.v)

\* the parameters of _compute_days, line 161-163
ComputeDaysParams == <<"year_initial", "year_final", "year_since">>
\* the value of year_since when the caller gives none
YearSinceDefault == 1900

\* a call _compute_days(*positional, **keywords): Python binds the arguments
\* to the parameters, and raises TypeError for a keyword that names none
CallComputeDays(positional, keywords) ==
    LET names == {ComputeDaysParams[i] : i \in 1..Len(ComputeDaysParams)}
        bound == {ComputeDaysParams[i] : i \in 1..Len(positional)}
        arg(name, i) == IF i <= Len(positional) THEN positional[i] ELSE keywords[name]
    IN  IF Len(positional) > Len(ComputeDaysParams) THEN [err |-> "TypeError", days |-> <<>>]
        ELSE IF ~(DOMAIN keywords \subseteq names) THEN [err |-> "TypeError", days |-> <<>>]
        ELSE IF (DOMAIN keywords \cap bound) # {} THEN [err |-> "TypeError", days |-> <<>>]
        ELSE IF ~({"year_initial", "year_final"} \subseteq (bound \cup DOMAIN keywords))
             THEN [err |-> "TypeError", days |-> <<>>]
        ELSE _compute_days(arg("year_initial", 1), arg("year_final", 2),
                           IF "year_since" \in (bound \cup DOMAIN keywords)
                           THEN arg("year_since", 3) ELSE YearSinceDefault)

----------------------------------------------------------------------------
(* SpecDays: one call of _compute_days.                                    *)

InitialYears == {1800, 1900, 1997, 1998, 2000}
FinalYears == {0, 1998, 2000, 2017, 7320}
SinceYears == {1800, 1900, 1998, 2000, 2001}

InitDays ==
    /\ pc = "call"
    /\ DriverIdle
    /\ \E yi \in InitialYears, yf \in FinalYears, ys \in SinceYears :
         args = [year_initial |-> yi, year_final |-> yf, year_since |-> ys]
    /\ result = NoResult

ComputeDaysCall ==
    /\ pc = "call"
    /\ result' = CallComputeDays(<<args.year_initial, args.year_final>>,
                                 [k \in {"year_since"} |-> args.year_since])
    /\ pc' = "returned"
    /\ UNCHANGED <<args, driverVars>>

NextDays == ComputeDaysCall

SpecDays == InitDays /\ [][NextDays]_vars

\* whole days from January 1st of year a to January 1st of year b
DaysBetween(a, b) == DaysBeforeYear(b) - DaysBeforeYear(a)

\* C6: for valid arguments, with the epoch year not after the first year, the
\* call returns a strictly increasing sequence whose first element is the
\* number of days from the epoch's January 1st to the first year's
C6_TimeAxisMonotonic ==
    (Returned /\ args.year_since <= args.year_initial
              /\ args.year_initial <= args.year_final /\ args.year_final \in 1..9999)
        => /\ result.err = "none"
           /\ Len(result.days) > 0
           /\ result.days[1] = DaysBetween(args.year_since, args.year_initial)
           /\ \A i \in 1..(Len(result.days) - 1) : result.days[i] < result.days[i + 1]

----------------------------------------------------------------------------
(* ingest_cmorph_to_netcdf, from its first line to the call of             *)
(* _compute_days.  The descriptor is the file DescriptorName of the work   *)
(* directory; `descriptor` holds its text (what the FTP server serves when *)
(* download_files is set, what is on disk otherwise).                      *)

FirstYear == 1998
EndYear == 2018
\* _get_years(): range(1998, 2018)
_get_years == [i \in 1..(EndYear - FirstYear) |-> FirstYear + i - 1]

units_since_year == 1800

DescriptorFile == File(DescriptorName, TRUE, <<>>)

\* an exception leaves the function; one raised inside the with block of line
\* 232 closes the dataset on its way out
Fail(e) ==
    /\ pc' = "failed"
    /\ error' = e
    /\ output_dataset' = IF output_dataset = "open" THEN "closed" ELSE output_dataset

\* lines 217-219
DownloadDescriptor ==
    /\ pc = "start"
    /\ IF download_files
       THEN /\ cmorph_dir' = {f \in cmorph_dir : f.name # DescriptorName}
                               \cup {DescriptorFile}
            /\ io' = io \cup {"download_descriptor"}
       ELSE UNCHANGED <<cmorph_dir, io>>
    /\ pc' = "read"
    /\ UNCHANGED <<error, download_files, remove_files, descriptor, data_desc, archive,
                   output_dataset, prcp, written, year, month, args, result>>

\* line 222
ReadDescription ==
    /\ pc = "read"
    /\ IF DescriptorFile \notin cmorph_dir
       THEN /\ Fail("FileNotFoundError")
            /\ UNCHANGED <<data_desc, io>>
       ELSE LET r == _read_description(descriptor)
            IN  /\ io' = io \cup {"read_descriptor"}
                /\ IF r.err # "none"
                   THEN Fail(r.err) /\ UNCHANGED data_desc
                   ELSE /\ data_desc' = r.dict
                        /\ pc' = "cleanup"
                        /\ UNCHANGED <<error, output_dataset>>
    /\ UNCHANGED <<download_files, remove_files, descriptor, cmorph_dir, archive,
                   prcp, written, year, month, args, result>>

\* lines 225-226
RemoveDescriptor ==
    /\ pc = "cleanup"
    /\ IF download_files /\ remove_files
       THEN /\ cmorph_dir' = cmorph_dir \ {DescriptorFile}
            /\ io' = io \cup {"remove_descriptor"}
       ELSE UNCHANGED <<cmorph_dir, io>>
    /\ pc' = "open"
    /\ UNCHANGED <<error, download_files, remove_files, descriptor, data_desc, archive,
                   output_dataset, prcp, written, year, month, args, result>>

\* lines 229-232: mode 'w' creates the file, or truncates the one there is
OpenDataset ==
    /\ pc = "open"
    /\ output_dataset' = "open"
    /\ prcp' = <<>>
    /\ io' = io \cup {"create_dataset"}
    /\ pc' = "dimensions"
    /\ UNCHANGED <<error, download_files, remove_files, descriptor, data_desc, cmorph_dir,
                   archive, written, year, month, args, result>>

\* lines 235-239
CreateDimensions ==
    /\ pc = "dimensions"
    /\ IF \E k \in {"xdef_count", "ydef_count", "title"} : ~Has(data_desc, k)
       THEN Fail("KeyError")
       ELSE pc' = "variables" /\ UNCHANGED <<error, output_dataset>>
    /\ UNCHANGED <<download_files, remove_files, descriptor, data_desc, cmorph_dir,
                   archive, prcp, written, year, month, io, args, result>>

\* lines 242-250
CreateCoordinateVariables ==
    /\ pc = "variables"
    /\ pc' = "time"
    /\ UNCHANGED <<error, download_files, remove_files, descriptor, data_desc, cmorph_dir,
                   archive, output_dataset, prcp, written, year, month, io, args, result>>

\* lines 253-256: the arguments are evaluated, then the call is made with two
\* keywords, initial_month and units_start_year
ComputeTimeValues ==
    /\ pc = "time"
    /\ IF ~Has(data_desc, "start_date")
       THEN Fail("KeyError")
       ELSE LET r == CallComputeDays(
                       <<data_desc["start_date"].year, Len(_get_years) * 366>>,
                       [k \in {"initial_month", "units_start_year"} |->
                          IF k = "initial_month" THEN data_desc["start_date"].month
                          ELSE units_since_year])
            IN  IF r.err # "none" THEN Fail(r.err)
                ELSE pc' = "axes" /\ UNCHANGED <<error, output_dataset>>
    /\ UNCHANGED <<download_files, remove_files, descriptor, data_desc, cmorph_dir,
                   archive, prcp, written, year, month, io, args, result>>

\* the descriptors a run is given: the example of the docstring with any of
\* its keyword lines left out, a start year before or after the epoch, and
\* possibly a blank last line
TdefLines == {"TDEF 99999 LINEAR  01jan1998 1dy ", "TDEF 99999 LINEAR  01jan1700 1dy "}

KeywordOf(line) == IF Len(Split(line)) = 0 THEN "" ELSE Split(line)[1]

RECURSIVE Without(_, _)
\* the lines whose keyword is not in `drop`
Without(lines, drop) ==
    IF Len(lines) = 0 THEN <<>>
    ELSE IF KeywordOf(Head(lines)) \in drop THEN Without(Tail(lines), drop)
    ELSE <<Head(lines)>> \o Without(Tail(lines), drop)

Keywords == {"UNDEF", "XDEF", "YDEF", "TDEF", "OPTIONS", "TITLE", "cmorph"}
Required == {"UNDEF", "XDEF", "YDEF", "TDEF"}

RunDescriptors ==
    {Without(Descriptor("UNDEF  -999.0", "OPTIONS template little_endian", t), drop) \o tail :
        t \in TdefLines, drop \in SUBSET Keywords, tail \in {<<>>, <<"">>}}

Init ==
    /\ pc = "start"
    /\ error = "none"
    /\ download_files \in BOOLEAN
    /\ remove_files \in BOOLEAN
    /\ descriptor \in RunDescriptors
    /\ data_desc = EmptyDict
    /\ cmorph_dir \in (IF download_files THEN {{}} ELSE {{}, {DescriptorFile}})
    /\ archive = <<>>
    /\ output_dataset \in {"absent", "old"}
    /\ prcp = <<>>
    /\ written = <<>>
    /\ year = 0
    /\ month = 0
    /\ io = {}
    /\ args = <<>>
    /\ result = NoResult

Next ==
    \/ DownloadDescriptor
    \/ ReadDescription
    \/ RemoveDescriptor
    \/ OpenDataset
    \/ CreateDimensions
    \/ CreateCoordinateVariables
    \/ ComputeTimeValues

Spec == Init /\ [][Next]_vars

----------------------------------------------------------------------------
(* Claims about the start of a run, checked under Spec.                    *)

\* no line of the descriptor starts with the keyword; Lacks("") is: no line
\* is without words
Lacks(keyword) == \A i \in 1..Len(descriptor) : KeywordOf(descriptor[i]) # keyword

EpochAfterFirstYear ==
    /\ Has(data_desc, "start_date")
    /\ units_since_year > data_desc["start_date"].year

Failed == pc = "failed"

\* C7: when the epoch year is later than the first data year the run fails with
\* a range error (ValueError), raised before the output dataset is created or
\* opened and before any file is removed; the one file read is the descriptor,
\* which is where the first data year comes from
C7_RangeErrorBeforeIO ==
    (Failed /\ EpochAfterFirstYear /\ Lacks("") /\ \A k \in Keywords : ~Lacks(k))
        => /\ error = "ValueError"
           /\ output_dataset \in {"absent", "old"}
           /\ io \subseteq {"download_descriptor", "read_descriptor"}

\* C8: a descriptor without an UNDEF, XDEF, YDEF or TDEF line makes parsing
\* fail with a ParseError, and the output file is neither created nor truncated
C8_ParseErrorBeforeDataset ==
    (Failed /\ "read_descriptor" \in io /\ Lacks("") /\ \E k \in Required : Lacks(k))
        => /\ error = "ParseError"
           /\ output_dataset \in {"absent", "old"}

\* the descriptor is there to be read and is well formed: it parses, every
\* keyword line of the docstring's example is present, and its start date is
\* not before the epoch
WellFormedRun ==
    /\ download_files \/ DescriptorFile \in cmorph_dir
    /\ LET r == _read_description(descriptor)
       IN  /\ r.err = "none"
           /\ \A k \in {"undef", "xdef_count", "xdef_start", "xdef_increment",
                        "ydef_count", "ydef_start", "ydef_increment", "start_date",
                        "little_endian", "variable_description", "title"} :
                Has(r.dict, k)
           /\ r.dict["start_date"].year >= units_since_year

\* C11: a run given a well-formed descriptor (and readable daily files of the
\* expected length) goes from parsing through the dataset skeleton into the
\* loop over the months and terminates normally: no step of it ends the run
\* with an exception
C11_RunTerminatesNormally == WellFormedRun => (pc # "failed" /\ error = "none")

----------------------------------------------------------------------------
(* SpecParse: one call of _read_description on a descriptor that exists.   *)

\* lines that start with none of the keywords of lines 331-350
UnrecognizedLines == {"", "   ", "ZDEF   01 LEVELS 1", "ENDVARS", "undef 5", "*"}
\* keyword lines with fewer words than the branch reads, or a malformed token
MalformedLines == {"UNDEF", "XDEF 2 LINEAR 0.125", "OPTIONS little_endian",
                   "TDEF 99999 LINEAR  31feb1998 1dy ", "YDEF one LINEAR 0 1"}

\* lines[:at] + [line] + lines[at:]
Insert(lines, at, line) ==
    SubSeq(lines, 1, at) \o <<line>> \o SubSeq(lines, at + 1, Len(lines))

ParseTexts ==
    LET base == {Without(Descriptor(u, o, "TDEF 99999 LINEAR  01jan1998 1dy "), drop) :
                   u \in UndefLines, o \in OptionsLines,
                   drop \in {{}, {"UNDEF"}, {"TDEF", "TITLE"}, {"OPTIONS", "XDEF", "YDEF"}}}
    IN  base \cup {Insert(b, at, l) : b \in base, at \in {0, 3},
                                      l \in MalformedLines \cup {"", "VARS 1"}}

InitParse ==
    /\ pc = "call"
    /\ DriverIdle
    /\ \E t \in ParseTexts : args = [lines |-> t]
    /\ result = NoResult

ReadDescriptionCall ==
    /\ pc = "call"
    /\ result' = _read_description(args.lines)
    /\ pc' = "returned"
    /\ UNCHANGED <<args, driverVars>>

NextParse == ReadDescriptionCall

SpecParse == InitParse /\ [][NextParse]_vars

\* C10: inserting, anywhere in a descriptor, a line that starts with no
\* recognized keyword (an empty or whitespace-only line included) neither
\* raises nor changes any field of the parsed result
C10_UnrecognizedLinesIgnored ==
    Returned => \A u \in UnrecognizedLines : \A at \in 0..Len(args.lines) :
                    _read_description(Insert(args.lines, at, u)) = result

----------------------------------------------------------------------------
(* SpecLoop: the loop of lines 275-297, one iteration per step, entered    *)
(* with the dataset open and its skeleton (lines 232-272) in place.        *)

\* the default of the parameter obs_type, line 203
obs_type == "raw"

\* _download_daily_files: one file per day of the month (lines 104-107, 120),
\* downloaded, decompressed and left in the work directory under its name
DownloadedFiles(y, m) ==
    {File(filename_unzipped(y, m, d), TRUE, archive) : d \in 1..DaysInMonth(y, m)}

AfterDownload(dir, y, m) ==
    LET files == DownloadedFiles(y, m)
    IN  {f \in dir : \A g \in files : g.name # f.name} \cup files

RECURSIVE SetToSeq(_)
SetToSeq(S) == IF S = {} THEN <<>>
               ELSE LET x == CHOOSE x \in S : TRUE IN <<x>> \o SetToSeq(S \ {x})

Reverse(l) == [i \in 1..Len(l) |-> l[Len(l) + 1 - i]]

\* os.listdir gives the entries in arbitrary order: one order and its reverse
\* are drawn here (SpecAgg draws every order of its listings)
ListDir(dir) == LET l == SetToSeq(dir) IN {l, Reverse(l)}

\* np.reshape(data, (1, ydef_count, xdef_count)), line 286
Reshape(data, ydef_count, xdef_count) ==
    <<[j \in 1..ydef_count |-> [i \in 1..xdef_count |-> data[(j - 1) * xdef_count + i]]]>>

\* TimeIndex, had line 289 left out the "- 1"
TimeIndexOneBased(data_year, start_year, data_month) ==
    ((data_year - start_year) * 12) + data_month
\* line 289
TimeIndex(data_year, start_year, data_month) ==
    ((data_year - start_year) * 12) + data_month - 1

\* data_variable[time_index, :, :] = data, line 292
Assign(variable, time_index, data) ==
    [k \in DOMAIN variable \cup {time_index} |->
       IF k = time_index THEN data[1] ELSE variable[k]]

\* Months, had line 276 read range(1, 12)
MonthsToNovember == 1..11
\* the months of a year the loop of line 276 visits: range(1, 13)
Months == 1..12

\* one pass of the loop body, lines 278-297, for the current year and month
IngestMonth ==
    /\ pc = "loop"
    /\ \E dir \in {IF download_files THEN AfterDownload(cmorph_dir, year, month)
                  ELSE cmorph_dir} :
         \E listing \in ListDir(dir) :
           \E r \in {_read_daily_cmorph_to_monthly_sum(listing, data_desc, year, month)} :
             LET time_index == TimeIndex(year, data_desc["start_date"].year, month)
                 data == Reshape(r.sum, data_desc["ydef_count"], data_desc["xdef_count"])
             IN  IF r.err # "none"
                 THEN /\ Fail(r.err)
                      /\ cmorph_dir' = dir
                      /\ UNCHANGED <<prcp, written, year, month>>
                 ELSE /\ prcp' = Assign(prcp, time_index, data)
                      /\ written' = Append(written, [year |-> year, month |-> month,
                                                     time_index |-> time_index,
                                                     data |-> data[1]])
                      /\ cmorph_dir' = IF download_files /\ remove_files
                                       THEN dir \ DownloadedFiles(year, month) ELSE dir
                      /\ IF month + 1 \in Months
                         THEN /\ month' = month + 1
                              /\ UNCHANGED <<pc, year, output_dataset>>
                         ELSE IF year + 1 < EndYear
                         THEN /\ month' = 1
                              /\ year' = year + 1
                              /\ UNCHANGED <<pc, output_dataset>>
                         ELSE /\ pc' = "done"
                              /\ output_dataset' = "closed"
                              /\ UNCHANGED <<year, month>>
                      /\ UNCHANGED error
    /\ UNCHANGED <<download_files, remove_files, descriptor, data_desc, archive, io,
                   args, result>>

LoopDescriptors ==
    {Descriptor("UNDEF  -999.0", "OPTIONS template little_endian", t) :
        t \in {"TDEF 99999 LINEAR  01jan1998 1dy ", "TDEF 99999 LINEAR  01jan1997 1dy "}}

\* what the server holds for a daily file: a grid, or a file cut short or long
LoopArchives == {<<One, One>>, <<Sentinel, One>>, <<One, One, One>>}

\* a file left in the work directory by an earlier run, under a name no
\* download overwrites
StaleFile == File("CMORPH_V1.0_RAW_0.25deg-DLY_00Z_19980230", TRUE, <<One, Sentinel>>)

InitLoop ==
    /\ pc = "loop"
    /\ error = "none"
    /\ download_files \in BOOLEAN
    /\ remove_files \in BOOLEAN
    /\ descriptor \in LoopDescriptors
    /\ data_desc = _read_description(descriptor).dict
    /\ \E stale \in {{}, {StaleFile}} :
         cmorph_dir = stale \cup (IF download_files /\ remove_files THEN {}
                                  ELSE {DescriptorFile})
    /\ archive \in LoopArchives
    /\ output_dataset = "open"
    /\ prcp = <<>>
    /\ written = <<>>
    /\ year = _get_years[1]
    /\ month = 1
    /\ io = {"read_descriptor", "create_dataset"}
    /\ args = <<>>
    /\ result = NoResult

NextLoop == IngestMonth

SpecLoop == InitLoop /\ [][NextLoop]_vars

----------------------------------------------------------------------------
(* Claims about the loop, checked under SpecLoop.                          *)

start_year == data_desc["start_date"].year

Wrote == Len(written') = Len(written) + 1
LastWrite == written'[Len(written')]

\* the aggregate of the month being processed, for the directory as listed
AggregateOf(dir) ==
    _read_daily_cmorph_to_monthly_sum(SetToSeq(dir), data_desc, year, month)

\* C1: the aggregate of each (year, month) processed is written at time index
\* (year - start_year) * 12 + (month - 1), and that write touches no other slice
C1_WrittenAtTimeIndex ==
    [][Wrote =>
         LET at == ((year - start_year) * 12) + (month - 1)
             dir == IF download_files THEN AfterDownload(cmorph_dir, year, month)
                    ELSE cmorph_dir
         IN  /\ LastWrite.year = year
             /\ LastWrite.month = month
             /\ LastWrite.time_index = at
             /\ DOMAIN prcp' = DOMAIN prcp \cup {at}
             /\ prcp'[at] = Reshape(AggregateOf(dir).sum, data_desc["ydef_count"],
                                    data_desc["xdef_count"])[1]
             /\ \A k \in DOMAIN prcp \ {at} : prcp'[k] = prcp[k]]_vars

\* with start_year = 1998, (1999, 3) has gone to index 14 and (1998, 1) to 0
C1_Witness ==
    /\ start_year = 1998
    /\ Len(written) >= 15
    /\ written[15].year = 1999 /\ written[15].month = 3 /\ written[15].time_index = 14
    /\ written[1].year = 1998 /\ written[1].month = 1 /\ written[1].time_index = 0
    /\ prcp[14] = written[15].data
    /\ prcp[14][1][2] = 31 * One.le
    /\ prcp[0] = written[1].data

InMonthOrder ==
    \A i \in 2..Len(written) :
        (written[i].year * 12) + written[i].month
            = (written[i - 1].year * 12) + written[i - 1].month + 1

====
